---- MODULE Spec2Model ----
(***************************************************************************)
(* Model of invoice_data.py: the invoice extraction pipeline               *)
(* (extract_invoice_data, save_extraction_result, display_extracted_data,  *)
(* the "Upload & Extract" handler and the "View Results" tab).             *)
(*                                                                         *)
(* A text (Python str) is a sequence of characters; a character is a       *)
(* one-element TLA+ string.  The fixed words the code compares against     *)
(* inside JSON strings ("invoice_details", "tax", ...) and the JSON        *)
(* literal null are written as one element each: the code never slices     *)
(* inside them.                                                            *)
(***************************************************************************)
EXTENDS Integers, Sequences, FiniteSets, TLC

VARIABLES
    platform,   \* the os flavour pathlib runs on: "posix" or "nt"
    now,        \* the wall clock, in ticks
    dir,        \* the results directory: file name -> [content, mtime]
    attempts,   \* number of "Extract Data" clicks so far
    reply,      \* the answer of the inference service to the last click
    outcome,    \* what the last click did (see ClickExtract)
    session,    \* st.session_state.extraction_result
    view,       \* what the "View Results" tab showed in the last rerun
    api_key     \* whether GEMINI_API_KEY is set

vars == <<platform, now, dir, attempts, reply, outcome, session, view, api_key>>

-----------------------------------------------------------------------------
(* Characters and Python str primitives *)

\* the grave accent, U+0060, the character of a markdown fence
BT    == "U+0060"
QUOTE == "\""
BSL   == "\\"
NL    == "\n"
SP    == " "

\* a lone surrogate, U+D83D, and the four hex digits that escape it in JSON
SURR   == "U+D83D"
U_D83D == "uD83D"

FENCE      == <<BT, BT, BT>>
FENCE_JSON == <<BT, BT, BT, "j", "s", "o", "n">>

Whitespace == {SP, NL}

Drop(s, k) == SubSeq(s, k + 1, Len(s))

DropLast(s, k) == SubSeq(s, 1, Len(s) - k)

startswith(s, p) == Len(s) >= Len(p) /\ SubSeq(s, 1, Len(p)) = p

endswith(s, p) == Len(s) >= Len(p) /\ SubSeq(s, Len(s) - Len(p) + 1, Len(s)) = p

RECURSIVE lstrip(_)
lstrip(s) == IF s # <<>> /\ Head(s) \in Whitespace THEN lstrip(Tail(s)) ELSE s

RECURSIVE rstrip(_)
rstrip(s) ==
    IF s # <<>> /\ s[Len(s)] \in Whitespace THEN rstrip(DropLast(s, 1)) ELSE s

strip(s) == rstrip(lstrip(s))

RECURSIVE replace(_, _, _)
replace(s, old, new) ==
    IF s = <<>> THEN <<>>
    ELSE <<(IF Head(s) = old THEN new ELSE Head(s))>> \o replace(Tail(s), old, new)

-----------------------------------------------------------------------------
(* JSON values as Python holds them *)

JNull   == [t |-> "null"]
JNum(n) == [t |-> "num", n |-> n]
JStr(s) == [t |-> "str", s |-> s]
JArr(a) == [t |-> "arr", a |-> a]
JObj(o) == [t |-> "obj", o |-> o]     \* o: sequence of <<key, value>>, keys distinct

DigitChars == <<"0", "1", "2", "3", "4", "5", "6", "7", "8", "9">>

IsDigit(c) == \E d \in 1..10 : DigitChars[d] = c

DigitVal(c) == (CHOOSE d \in 1..10 : DigitChars[d] = c) - 1

RECURSIVE IntToStr(_)
IntToStr(n) ==
    IF n < 10 THEN <<DigitChars[n + 1]>>
    ELSE IntToStr(n \div 10) \o <<DigitChars[(n % 10) + 1]>>

\* dict(pairs): a repeated key keeps its first position and takes the last value
RECURSIVE DictPut(_, _, _)
DictPut(o, k, v) ==
    IF o = <<>> THEN << <<k, v>> >>
    ELSE IF Head(o)[1] = k THEN << <<k, v>> >> \o Tail(o)
    ELSE <<Head(o)>> \o DictPut(Tail(o), k, v)

HasKey(o, k) == \E i \in 1..Len(o) : o[i][1] = k

Lookup(o, k) == o[CHOOSE i \in 1..Len(o) : o[i][1] = k][2]

\* dict.get(key, default)
DictGet(o, k, default) == IF HasKey(o, k) THEN Lookup(o, k) ELSE default

-----------------------------------------------------------------------------
(* json.loads: the scanner of the decoder, on the characters of this model *)

ParseFail == [ok |-> FALSE]

RECURSIVE SkipWS(_, _)
SkipWS(s, i) == IF i <= Len(s) /\ s[i] \in Whitespace THEN SkipWS(s, i + 1) ELSE i

\* i is the index after the opening quote
RECURSIVE scanstring(_, _, _)
scanstring(s, i, acc) ==
    IF i > Len(s) THEN ParseFail
    ELSE IF s[i] = QUOTE THEN [ok |-> TRUE, v |-> acc, n |-> i + 1]
    ELSE IF s[i] = BSL THEN
        IF i + 1 <= Len(s) /\ s[i + 1] \in {QUOTE, BSL, "/"}
        THEN scanstring(s, i + 2, Append(acc, s[i + 1]))
        \* a \uXXXX escape of a high surrogate that no low surrogate follows
        ELSE IF i + 1 <= Len(s) /\ s[i + 1] = U_D83D
        THEN scanstring(s, i + 2, Append(acc, SURR))
        ELSE ParseFail
    ELSE IF s[i] = NL THEN ParseFail
    ELSE scanstring(s, i + 1, Append(acc, s[i]))

RECURSIVE scandigits(_, _, _)
scandigits(s, i, acc) ==
    IF i <= Len(s) /\ IsDigit(s[i])
    THEN scandigits(s, i + 1, 10 * acc + DigitVal(s[i]))
    ELSE [ok |-> TRUE, v |-> JNum(acc), n |-> i]

RECURSIVE scan_once(_, _)
RECURSIVE JSONObject(_, _, _)
RECURSIVE JSONArray(_, _, _)

scan_once(s, i) ==
    IF i > Len(s) THEN ParseFail
    ELSE IF s[i] = QUOTE THEN
        LET r == scanstring(s, i + 1, <<>>)
        IN  IF r.ok THEN [ok |-> TRUE, v |-> JStr(r.v), n |-> r.n] ELSE ParseFail
    ELSE IF s[i] = "{" THEN
        LET j == SkipWS(s, i + 1)
        IN  IF j <= Len(s) /\ s[j] = "}" THEN [ok |-> TRUE, v |-> JObj(<<>>), n |-> j + 1]
            ELSE JSONObject(s, j, <<>>)
    ELSE IF s[i] = "[" THEN
        LET j == SkipWS(s, i + 1)
        IN  IF j <= Len(s) /\ s[j] = "]" THEN [ok |-> TRUE, v |-> JArr(<<>>), n |-> j + 1]
            ELSE JSONArray(s, j, <<>>)
    ELSE IF s[i] = "null" THEN [ok |-> TRUE, v |-> JNull, n |-> i + 1]
    ELSE IF s[i] = "0" THEN [ok |-> TRUE, v |-> JNum(0), n |-> i + 1]
    ELSE IF IsDigit(s[i]) THEN scandigits(s, i, 0)
    ELSE ParseFail

\* i is the index where the opening quote of a key is expected
JSONObject(s, i, acc) ==
    IF i > Len(s) \/ s[i] # QUOTE THEN ParseFail
    ELSE
        LET k == scanstring(s, i + 1, <<>>)
        IN  IF ~k.ok THEN ParseFail
            ELSE
                LET c == SkipWS(s, k.n)
                IN  IF c > Len(s) \/ s[c] # ":" THEN ParseFail
                    ELSE
                        LET r == scan_once(s, SkipWS(s, c + 1))
                        IN  IF ~r.ok THEN ParseFail
                            ELSE
                                LET e  == SkipWS(s, r.n)
                                    o2 == DictPut(acc, k.v, r.v)
                                IN  IF e > Len(s) THEN ParseFail
                                    ELSE IF s[e] = "}"
                                    THEN [ok |-> TRUE, v |-> JObj(o2), n |-> e + 1]
                                    ELSE IF s[e] = ","
                                    THEN JSONObject(s, SkipWS(s, e + 1), o2)
                                    ELSE ParseFail

\* i is the index where the next element is expected
JSONArray(s, i, acc) ==
    LET r == scan_once(s, i)
    IN  IF ~r.ok THEN ParseFail
        ELSE
            LET e  == SkipWS(s, r.n)
                a2 == Append(acc, r.v)
            IN  IF e > Len(s) THEN ParseFail
                ELSE IF s[e] = "]" THEN [ok |-> TRUE, v |-> JArr(a2), n |-> e + 1]
                ELSE IF s[e] = "," THEN JSONArray(s, SkipWS(s, e + 1), a2)
                ELSE ParseFail

\* json.loads(s): [ok |-> TRUE, v |-> value], or ParseFail for JSONDecodeError
json_loads(s) ==
    LET r == scan_once(s, SkipWS(s, 1))
    IN  IF ~r.ok THEN ParseFail
        ELSE IF SkipWS(s, r.n) # Len(s) + 1 THEN ParseFail
        ELSE [ok |-> TRUE, v |-> r.v]

-----------------------------------------------------------------------------
(* json.dump(data, f, indent=2, ensure_ascii=False) *)

RECURSIVE Spaces(_)
Spaces(k) == IF k = 0 THEN <<>> ELSE <<SP>> \o Spaces(k - 1)

Indent == 2

newline_indent(level) == <<NL>> \o Spaces(Indent * level)

\* a variant that writes the characters of a string without escaping them
encode_basestring_raw(s) == s

RECURSIVE encode_basestring_body(_)
encode_basestring_body(s) ==
    IF s = <<>> THEN <<>>
    ELSE (IF Head(s) \in {QUOTE, BSL} THEN <<BSL, Head(s)>> ELSE <<Head(s)>>)
         \o encode_basestring_body(Tail(s))

encode_basestring(s) == <<QUOTE>> \o encode_basestring_body(s) \o <<QUOTE>>

\* None, int and str are encoded in one piece
IsAtom(v) == v.t \in {"null", "num", "str"}

AtomText(v) ==
    CASE v.t = "null" -> <<"null">>
      [] v.t = "num"  -> IntToStr(v.n)
      [] v.t = "str"  -> encode_basestring(v.s)

\* _iterencode of json.encoder: the chunks it yields, in order
RECURSIVE iterencode(_, _)
RECURSIVE iterencode_list(_, _, _)
RECURSIVE iterencode_dict(_, _, _)

\* a list yields the pending separator together with an atom, or alone
\* before the chunks of a nested list or dict
iterencode_list(items, level, buf) ==
    IF items = <<>> THEN <<>>
    ELSE (IF IsAtom(Head(items)) THEN <<buf \o AtomText(Head(items))>>
          ELSE <<buf>> \o iterencode(Head(items), level))
         \o iterencode_list(Tail(items), level, <<",">> \o newline_indent(level))

\* a dict yields separator, key, ": " and value as chunks of their own
iterencode_dict(pairs, level, first) ==
    IF pairs = <<>> THEN <<>>
    ELSE (IF first THEN <<>> ELSE << <<",">> \o newline_indent(level) >>)
         \o <<encode_basestring(Head(pairs)[1]), <<":", SP>>>>
         \o iterencode(Head(pairs)[2], level)
         \o iterencode_dict(Tail(pairs), level, FALSE)

iterencode(v, level) ==
    IF IsAtom(v) THEN <<AtomText(v)>>
    ELSE IF v.t = "arr" THEN
        IF v.a = <<>> THEN << <<"[", "]">> >>
        ELSE iterencode_list(v.a, level + 1, <<"[">> \o newline_indent(level + 1))
             \o <<newline_indent(level), <<"]">>>>
    ELSE
        IF v.o = <<>> THEN << <<"{", "}">> >>
        ELSE << <<"{">>, newline_indent(level + 1) >>
             \o iterencode_dict(v.o, level + 1, TRUE)
             \o <<newline_indent(level), <<"}">>>>

RECURSIVE Flatten(_)
Flatten(chunks) ==
    IF chunks = <<>> THEN <<>> ELSE Head(chunks) \o Flatten(Tail(chunks))

\* json.dumps(v, indent=2, ensure_ascii=False)
json_dumps(v) == Flatten(iterencode(v, 0))

\* f.write(chunk) on a file opened with encoding='utf-8' encodes the chunk
\* at once: a lone surrogate cannot be encoded
Encodable(chunk) == \A i \in 1..Len(chunk) : chunk[i] # SURR

\* json.dump: for chunk in iterable: fp.write(chunk).  content is what the
\* file holds when the loop ends, normally or by UnicodeEncodeError
RECURSIVE json_dump(_, _)
json_dump(chunks, written) ==
    IF chunks = <<>> THEN [exc |-> "none", content |-> written]
    ELSE IF ~Encodable(Head(chunks))
    THEN [exc |-> "UnicodeEncodeError", content |-> written]
    ELSE json_dump(Tail(chunks), written \o Head(chunks))

-----------------------------------------------------------------------------
(* Python object protocol, as far as the program uses it *)

PyNone == JNull

\* bool(v)
Truthy(v) ==
    CASE v.t = "null" -> FALSE
      [] v.t = "num"  -> v.n # 0
      [] v.t = "str"  -> v.s # <<>>
      [] v.t = "arr"  -> v.a # <<>>
      [] v.t = "obj"  -> v.o # <<>>

\* iter(v): the items a for loop over v visits (defined for str, list, dict)
Iterable(v) == v.t \in {"str", "arr", "obj"}

ItemsOf(v) ==
    CASE v.t = "arr" -> v.a
      [] v.t = "str" -> [i \in 1..Len(v.s) |-> JStr(<<v.s[i]>>)]
      [] v.t = "obj" -> [i \in 1..Len(v.o) |-> JStr(v.o[i][1])]

\* format(v, ".2f")
Format2f(v) ==
    CASE v.t = "num" -> [exc |-> "none", s |-> IntToStr(v.n) \o <<".", "0", "0">>]
      [] v.t = "str" -> [exc |-> "ValueError"]
      [] OTHER       -> [exc |-> "TypeError"]

-----------------------------------------------------------------------------
(* extract_invoice_data *)

MSG_PARSE   == "Failed to parse JSON response"
MSG_SERVICE == "Error extracting data"
MSG_CONFIG  == "Please set GEMINI_API_KEY in secrets or environment variables"

\* a variant that forgets the fence without a language tag (line 119-120)
remove_code_blocks_json_only(raw) ==
    LET t0 == strip(raw)
        t1 == IF startswith(t0, FENCE_JSON) THEN Drop(t0, 7) ELSE t0
        t3 == IF endswith(t1, FENCE) THEN DropLast(t1, 3) ELSE t1
    IN  t3

\* lines 114-122: strip, then remove the markdown fence
remove_code_blocks(raw) ==
    LET t0 == strip(raw)
        t1 == IF startswith(t0, FENCE_JSON) THEN Drop(t0, 7) ELSE t0
        t2 == IF startswith(t1, FENCE) THEN Drop(t1, 3) ELSE t1
        t3 == IF endswith(t2, FENCE) THEN DropLast(t2, 3) ELSE t2
    IN  t3

\* a variant with the except clauses in the other order: Exception catches all
except_message_swapped(exc) == MSG_SERVICE

\* the except clauses, in their order: JSONDecodeError first, then Exception
except_message(exc) ==
    IF exc = "JSONDecodeError" THEN MSG_PARSE ELSE MSG_SERVICE

\* rep is what model.generate_content / response.text gave: a text, or an
\* exception.  The result is the returned value and the st.error message.
extract_invoice_data(rep) ==
    IF rep.kind = "raise"
    THEN [ret |-> PyNone, err |-> except_message("Exception")]
    ELSE
        LET r == json_loads(strip(remove_code_blocks(rep.text)))
        IN  IF r.ok THEN [ret |-> r.v, err |-> "none"]
            ELSE [ret |-> PyNone, err |-> except_message("JSONDecodeError")]

-----------------------------------------------------------------------------
(* save_extraction_result *)

K_invoice_details == <<"invoice_details">>
K_invoice_number  == <<"invoice_number">>
K_shop_info       == <<"shop_info">>
K_contacts        == <<"shop_contact_numbers">>
K_subtotal        == <<"invoice_subtotal">>
K_total_discount  == <<"invoice_total_discount">>
K_total           == <<"invoice_total">>
K_line_items      == <<"line_items">>
K_unit_price      == <<"unit_price">>
K_discount        == <<"discount">>
K_tax             == <<"tax">>
K_item_total      == <<"item_total_amount">>

UNKNOWN == <<"unknown">>

TicksPerSecond == 2

\* datetime.now().strftime("%Y%m%d_%H%M%S"): the clock to one second
strftime(clock) ==
    LET sec == clock \div TicksPerSecond
    IN  <<DigitChars[((sec \div 10) % 10) + 1], DigitChars[(sec % 10) + 1]>>

\* the characters pathlib splits a path at
PathSeps(plat) == IF plat = "nt" THEN {"/", BSL} ELSE {"/"}

\* the characters of this model that Windows refuses in a file name
NtReserved == {QUOTE}

\* results_dir / filename: the parts of the joined path
RECURSIVE SplitPath(_, _, _)
SplitPath(s, seps, cur) ==
    IF s = <<>> THEN (IF cur = <<>> THEN <<>> ELSE <<cur>>)
    ELSE IF Head(s) \in seps
         THEN (IF cur = <<>> THEN <<>> ELSE <<cur>>) \o SplitPath(Tail(s), seps, <<>>)
         ELSE SplitPath(Tail(s), seps, Append(cur, Head(s)))

RESULTS_DIR == <<"results">>

JoinPath(filename, plat) == <<RESULTS_DIR>> \o SplitPath(filename, PathSeps(plat), <<>>)

\* lines 139-141
derive_filename(invoice_number, clock) ==
    <<"invoice_">> \o replace(invoice_number, "/", "_") \o <<"_">>
        \o strftime(clock) \o <<".json">>

\* a variant that empties the results directory before it writes
save_extraction_result_clobber(data, clock, plat, d) ==
    IF data.t # "obj" THEN [exc |-> "AttributeError", dir |-> d]
    ELSE
    LET details == DictGet(data.o, K_invoice_details, JObj(<<>>))
    IN  IF details.t # "obj" THEN [exc |-> "AttributeError", dir |-> d]
        ELSE
        LET num == DictGet(details.o, K_invoice_number, JStr(UNKNOWN))
        IN  IF num.t # "str" THEN [exc |-> "AttributeError", dir |-> d]
            ELSE
            LET filename == derive_filename(num.s, clock)
                filepath == JoinPath(filename, plat)
                w        == json_dump(iterencode(data, 0), <<>>)
            IN  IF plat = "nt" /\ \E i \in 1..Len(filename) : filename[i] \in NtReserved
                THEN [exc |-> "OSError", dir |-> d,
                      filename |-> filename, filepath |-> filepath]
                ELSE IF plat = "posix" /\ ~Encodable(filename)
                THEN [exc |-> "UnicodeEncodeError", dir |-> d,
                      filename |-> filename, filepath |-> filepath]
                ELSE IF Len(filepath) # 2
                THEN [exc |-> "FileNotFoundError", dir |-> d,
                      filename |-> filename, filepath |-> filepath]
                ELSE [exc |-> w.exc,
                      dir |-> [f \in {filepath[2]} |->
                                 IF f = filepath[2]
                                 THEN [content |-> w.content, mtime |-> clock]
                                 ELSE d[f]],
                      filename |-> filename, filepath |-> filepath]

\* save_extraction_result(data) with filename=None, at time clock, on
\* directory d.  exc is the exception that ends it, or "none"; open(..., 'w')
\* creates or empties the file, and closing it keeps what was written.
save_extraction_result(data, clock, plat, d) ==
    IF data.t # "obj" THEN [exc |-> "AttributeError", dir |-> d]
    ELSE
    LET details == DictGet(data.o, K_invoice_details, JObj(<<>>))
    IN  IF details.t # "obj" THEN [exc |-> "AttributeError", dir |-> d]
        ELSE
        LET num == DictGet(details.o, K_invoice_number, JStr(UNKNOWN))
        IN  IF num.t # "str" THEN [exc |-> "AttributeError", dir |-> d]
            ELSE
            LET filename == derive_filename(num.s, clock)
                filepath == JoinPath(filename, plat)
                w        == json_dump(iterencode(data, 0), <<>>)
            IN  IF plat = "nt" /\ \E i \in 1..Len(filename) : filename[i] \in NtReserved
                THEN [exc |-> "OSError", dir |-> d,
                      filename |-> filename, filepath |-> filepath]
                ELSE IF plat = "posix" /\ ~Encodable(filename)
                THEN [exc |-> "UnicodeEncodeError", dir |-> d,
                      filename |-> filename, filepath |-> filepath]
                ELSE IF Len(filepath) # 2
                THEN [exc |-> "FileNotFoundError", dir |-> d,
                      filename |-> filename, filepath |-> filepath]
                ELSE [exc |-> w.exc,
                      dir |-> [f \in DOMAIN d \cup {filepath[2]} |->
                                 IF f = filepath[2]
                                 THEN [content |-> w.content, mtime |-> clock]
                                 ELSE d[f]],
                      filename |-> filename, filepath |-> filepath]

-----------------------------------------------------------------------------
(* display_extracted_data *)

\* line 187: sum(item.get('tax', 0) for item in items), from acc
RECURSIVE sum_tax(_, _)
sum_tax(items, acc) ==
    IF items = <<>> THEN [exc |-> "none", n |-> acc]
    ELSE IF Head(items).t # "obj" THEN [exc |-> "AttributeError"]
    ELSE
        LET tax == DictGet(Head(items).o, K_tax, JNum(0))
        IN  IF tax.t # "num" THEN [exc |-> "TypeError"]
            ELSE sum_tax(Tail(items), acc + tax.n)

\* line 165: ', '.join(contacts)
join_ok(contacts) ==
    /\ Iterable(contacts)
    /\ \A i \in 1..Len(ItemsOf(contacts)) : ItemsOf(contacts)[i].t = "str"

\* lines 196-206: the row of one line item; the first exception, or "none"
row_exc(item) ==
    IF item.t # "obj" THEN "AttributeError"
    ELSE
    LET f1 == Format2f(DictGet(item.o, K_unit_price, JNum(0)))
        f2 == Format2f(DictGet(item.o, K_discount, JNum(0)))
        f3 == Format2f(DictGet(item.o, K_tax, JNum(0)))
        f4 == Format2f(DictGet(item.o, K_item_total, JNum(0)))
    IN  IF f1.exc # "none" THEN f1.exc
        ELSE IF f2.exc # "none" THEN f2.exc
        ELSE IF f3.exc # "none" THEN f3.exc
        ELSE f4.exc

RECURSIVE rows_exc(_)
rows_exc(items) ==
    IF items = <<>> THEN "none"
    ELSE IF row_exc(Head(items)) # "none" THEN row_exc(Head(items))
    ELSE rows_exc(Tail(items))

\* The result: shown is FALSE when line 153 returns; exc is the exception
\* that ends the rendering, or "none"; at is the source line that raised;
\* total_tax is the text of the "Total Tax" metric once line 187 has run.
display_extracted_data(data) ==
    IF ~Truthy(data) THEN [shown |-> FALSE, exc |-> "none"]
    ELSE IF data.t # "obj" THEN [shown |-> TRUE, exc |-> "AttributeError", at |-> 159]
    ELSE
    LET shop_info == DictGet(data.o, K_shop_info, JObj(<<>>))
    IN  IF shop_info.t # "obj" THEN [shown |-> TRUE, exc |-> "AttributeError", at |-> 160]
    ELSE
    LET contacts == DictGet(shop_info.o, K_contacts, JArr(<<>>))
    IN  IF Truthy(contacts) /\ ~join_ok(contacts)
        THEN [shown |-> TRUE, exc |-> "TypeError", at |-> 165]
    ELSE
    LET invoice_details == DictGet(data.o, K_invoice_details, JObj(<<>>))
    IN  IF invoice_details.t # "obj"
        THEN [shown |-> TRUE, exc |-> "AttributeError", at |-> 174]
    ELSE
    LET subtotal == Format2f(DictGet(invoice_details.o, K_subtotal, JNum(0)))
        discount == Format2f(DictGet(invoice_details.o, K_total_discount, JNum(0)))
        total    == Format2f(DictGet(invoice_details.o, K_total, JNum(0)))
        items    == DictGet(data.o, K_line_items, JArr(<<>>))
    IN  IF subtotal.exc # "none" THEN [shown |-> TRUE, exc |-> subtotal.exc, at |-> 183]
        ELSE IF discount.exc # "none" THEN [shown |-> TRUE, exc |-> discount.exc, at |-> 185]
        ELSE IF ~Iterable(items) THEN [shown |-> TRUE, exc |-> "TypeError", at |-> 187]
        ELSE
        LET tax == sum_tax(ItemsOf(items), 0)
        IN  IF tax.exc # "none" THEN [shown |-> TRUE, exc |-> tax.exc, at |-> 187]
            ELSE IF total.exc # "none"
            THEN [shown |-> TRUE, exc |-> total.exc, at |-> 189,
                  total_tax |-> Format2f(JNum(tax.n)).s]
            ELSE IF Truthy(items) /\ rows_exc(ItemsOf(items)) # "none"
            THEN [shown |-> TRUE, exc |-> rows_exc(ItemsOf(items)), at |-> 197,
                  total_tax |-> Format2f(JNum(tax.n)).s]
            ELSE [shown |-> TRUE, exc |-> "none",
                  total_tax |-> Format2f(JNum(tax.n)).s]

-----------------------------------------------------------------------------
(* The "View Results" tab, lines 265-296 *)

\* results_dir.glob("*.json")
Glob(d) == {f \in DOMAIN d : f # <<>> /\ f[Len(f)] = ".json"}

RECURSIVE Perms(_)
Perms(S) ==
    IF S = {} THEN {<<>>}
    ELSE UNION {{<<x>> \o p : p \in Perms(S \ {x})} : x \in S}

\* list.sort(key=st_mtime, reverse=True): stable, newest first
RECURSIVE insert_by_mtime(_, _, _)
insert_by_mtime(sorted, f, d) ==
    IF sorted = <<>> THEN <<f>>
    ELSE IF d[Head(sorted)].mtime >= d[f].mtime
         THEN <<Head(sorted)>> \o insert_by_mtime(Tail(sorted), f, d)
         ELSE <<f>> \o sorted

\* a variant that leaves the files in the order glob gave them
sort_by_mtime_unsorted(files, d, acc) == files

RECURSIVE sort_by_mtime(_, _, _)
sort_by_mtime(files, d, acc) ==
    IF files = <<>> THEN acc
    ELSE sort_by_mtime(Tail(files), d, insert_by_mtime(acc, Head(files), d))

NoView == [listing |-> <<>>, ran |-> FALSE]

\* globbed: the order glob returned the files in; pick: the selectbox index
view_results(d, globbed, pick) ==
    IF globbed = <<>> THEN [listing |-> <<>>, ran |-> TRUE]
    ELSE
        LET results_files == sort_by_mtime(globbed, d, <<>>)
            selected_file == results_files[pick]
            data          == json_loads(d[selected_file].content)
        IN  IF ~data.ok
            THEN [listing |-> results_files, ran |-> TRUE,
                  selected |-> selected_file, exc |-> "JSONDecodeError"]
            ELSE [listing |-> results_files, ran |-> TRUE,
                  selected |-> selected_file, data |-> data.v,
                  disp |-> display_extracted_data(data.v)]

-----------------------------------------------------------------------------
(* Bounds of the model *)

MaxAttempts == 2      \* "Extract Data" clicks in a behaviour
MaxNow      == 2      \* the last tick of the clock
MaxStrLen   == 2      \* length of an invoice number
MaxItems    == 2      \* number of line items
MaxTax      == 2      \* largest tax amount
MaxBodyLen  == 3      \* length of an arbitrary reply body

-----------------------------------------------------------------------------
(* Inputs: what the inference service may answer *)

\* an object from optional fields: a field whose value is Absent is left out
Absent == [t |-> "absent"]

RECURSIVE Fields(_)
Fields(fs) ==
    IF fs = <<>> THEN <<>>
    ELSE (IF Head(fs)[2] = Absent THEN <<>> ELSE <<Head(fs)>>) \o Fields(Tail(fs))

RECURSIVE SeqsUpTo(_, _)
SeqsUpTo(S, n) ==
    IF n = 0 THEN {<<>>}
    ELSE SeqsUpTo(S, n - 1) \cup
         {Append(q, x) : q \in {r \in SeqsUpTo(S, n - 1) : Len(r) = n - 1}, x \in S}

\* a reply that wraps body in a markdown fence with the given language tag
Fenced(lead, tag, body, trail) ==
    lead \o FENCE \o tag \o <<NL>> \o body \o <<NL>> \o FENCE \o trail

TextReply(t) == [kind |-> "text", text |-> t]
RaiseReply   == [kind |-> "raise"]

Idle == [op |-> "idle"]

-----------------------------------------------------------------------------
(* The program: one rerun of the script per user interaction *)

InvoiceAB == JObj(<< <<K_invoice_details,
                        JObj(<< <<K_invoice_number, JStr(<<"A", "/", "B">>)>> >>)>> >>)

TaxNullItems == JArr(<< JObj(<< <<K_tax, JNull>> >>) >>)

\* the invoice "A/B" of a shop whose name holds a lone surrogate
InvoiceSurr == JObj(InvoiceAB.o \o
                    << <<K_shop_info, JObj(<< <<<<"shop_name">>, JStr(<<SURR>>)>> >>)>> >>)

\* a JSON text as the service sends it: a lone surrogate cannot travel in
\* the UTF-8 of the reply, it comes as its \uXXXX escape
RECURSIVE EscapeSurrogates(_)
EscapeSurrogates(text) ==
    IF text = <<>> THEN <<>>
    ELSE (IF Head(text) = SURR THEN <<BSL, U_D83D>> ELSE <<Head(text)>>)
         \o EscapeSurrogates(Tail(text))

\* null, {} and [], an invoice with no number, one whose number is null,
\* and three different invoices with the number "A/B"
PipelineValues ==
    {JNull, JObj(<<>>), JArr(<<>>),
     JObj(<< <<K_line_items, TaxNullItems>> >>),
     JObj(<< <<K_invoice_details, JObj(<< <<K_invoice_number, JNull>> >>)>> >>),
     InvoiceAB, InvoiceSurr,
     JObj(InvoiceAB.o \o << <<K_line_items, TaxNullItems>> >>)}

PipelineReplies ==
    {RaiseReply, TextReply(<<"n", "o", "t", SP, "j", "s", "o", "n">>)}
    \cup {TextReply(EscapeSurrogates(json_dumps(v))) : v \in PipelineValues}
    \cup {TextReply(Fenced(<<>>, <<"j", "s", "o", "n">>, json_dumps(v), <<NL>>)) :
             v \in {JObj(<<>>), InvoiceAB}}
    \cup {TextReply(FENCE_JSON \o <<NL>> \o DropLast(json_dumps(InvoiceAB), 1) \o <<NL>> \o FENCE)}

\* The replies above hold no character on which the two platforms differ, so
\* the pipeline is explored on one; SpecSave explores save on both.
Init ==
    /\ platform = "posix"
    /\ api_key \in BOOLEAN
    /\ now = 0
    /\ dir = <<>>
    /\ attempts = 0
    /\ reply = RaiseReply
    /\ outcome = Idle
    /\ session = PyNone
    /\ view = NoView

\* lines 265-296 on directory d, for some order of glob and some selection
Tab2(d, v) ==
    \E globbed \in Perms(Glob(d)) :
        \E pick \in 1..(IF globbed = <<>> THEN 1 ELSE Len(globbed)) :
            v = view_results(d, globbed, pick)

\* A click on "Extract Data" (lines 240-263), then the rest of the script.
\* An uncaught exception, or st.stop(), ends the rerun where it happens.
ClickExtract(rep) ==
    /\ attempts < MaxAttempts
    /\ attempts' = attempts + 1
    /\ reply' = rep
    /\ UNCHANGED <<platform, api_key, now>>
    /\ IF ~api_key
       THEN /\ outcome' = [op |-> "click", ret |-> PyNone, err |-> MSG_CONFIG,
                           saved |-> FALSE, exc |-> "StopException"]
            /\ view' = NoView
            /\ UNCHANGED <<dir, session>>
       ELSE
       LET r == extract_invoice_data(rep)
       IN  /\ IF ~Truthy(r.ret)
              THEN /\ outcome' = [op |-> "click", ret |-> r.ret, err |-> r.err,
                                  saved |-> FALSE, exc |-> "none"]
                   /\ UNCHANGED <<dir, session>>
                   /\ Tab2(dir, view')
              ELSE
              LET s == save_extraction_result(r.ret, now, platform, dir)
                  disp == display_extracted_data(r.ret)
              IN  /\ session' = r.ret
                  /\ dir' = s.dir
                  /\ IF s.exc # "none"
                     THEN /\ outcome' = [op |-> "click", ret |-> r.ret, err |-> r.err,
                                         saved |-> FALSE]
                                        @@ [x \in DOMAIN s \ {"dir"} |-> s[x]]
                          /\ view' = NoView
                     ELSE /\ outcome' = [op |-> "click", ret |-> r.ret, err |-> r.err,
                                         saved |-> TRUE, exc |-> disp.exc,
                                         filename |-> s.filename,
                                         filepath |-> s.filepath, disp |-> disp]
                          /\ IF outcome'.exc # "none"
                             THEN view' = NoView
                             ELSE Tab2(dir', view')

\* A rerun without a click: the user opens "View Results" or picks a file
ViewResults ==
    /\ Tab2(dir, view')
    /\ outcome' = [op |-> "view"]
    /\ UNCHANGED <<platform, api_key, now, dir, attempts, reply, session>>

\* time passes
Tick ==
    /\ now < MaxNow
    /\ now' = now + 1
    /\ UNCHANGED <<platform, api_key, dir, attempts, reply, outcome, session, view>>

\* a file of the results directory is deleted from outside the program
ExternalDelete(f) ==
    /\ f \in DOMAIN dir
    /\ dir' = [g \in DOMAIN dir \ {f} |-> dir[g]]
    /\ UNCHANGED <<platform, api_key, now, attempts, reply, outcome, session, view>>

Next ==
    \/ \E rep \in PipelineReplies : ClickExtract(rep)
    \/ ViewResults
    \/ Tick
    \/ \E f \in DOMAIN dir : ExternalDelete(f)

Spec == Init /\ [][Next]_vars

-----------------------------------------------------------------------------
(* extract_invoice_data alone, on every reply of a bounded family *)

BodyAlphabet == {"[", "]", "1", ",", QUOTE, BT, NL}

NormValues ==
    {JObj(<< <<K_invoice_details, JObj(<< <<K_total, JNum(42)>> >>)>>,
             <<K_line_items, JArr(<<>>)>> >>),
     JObj(<< <<K_invoice_details, JObj(<< <<K_invoice_number, JStr(<<BT, BT, BT>>)>> >>)>> >>),
     JArr(<<JStr(<<"j", "s", "o", "n">>), JNull>>)}

NormBodies ==
    SeqsUpTo(BodyAlphabet, MaxBodyLen) \cup {json_dumps(v) : v \in NormValues}

\* open: nothing, a bare fence, a json fence, a fence with another tag
NormReplies ==
    {RaiseReply} \cup
    {[kind |-> "text",
      text |-> lead \o open \o sep \o body \o sep \o close \o lead,
      open |-> open, body |-> body, close |-> close] :
        lead \in {<<>>, <<SP>>},
        open \in {<<>>, FENCE, FENCE_JSON, FENCE \o <<"j", "s">>},
        sep \in {<<>>, <<NL>>},
        close \in {<<>>, FENCE},
        body \in NormBodies}

InitNormalize ==
    /\ platform = "posix"
    /\ api_key = TRUE
    /\ now = 0
    /\ dir = <<>>
    /\ attempts = 0
    /\ reply \in NormReplies
    /\ outcome = Idle
    /\ session = PyNone
    /\ view = NoView

\* line 242: extraction_result = extract_invoice_data(...)
Extract ==
    /\ outcome = Idle
    /\ outcome' = [op |-> "extract"] @@ extract_invoice_data(reply)
    /\ UNCHANGED <<platform, api_key, now, dir, attempts, reply, session, view>>

NextNormalize == Extract

SpecNormalize == InitNormalize /\ [][NextNormalize]_vars

-----------------------------------------------------------------------------
(* save_extraction_result and the reload of lines 282-283 alone *)

StrAlphabet == {"A", "/", BSL, QUOTE, "_"}

SaveInputs ==
    {JObj(<<>>), JArr(<<JNum(1)>>), JStr(<<"A">>), JNum(1), InvoiceSurr,
     JObj(<< <<K_invoice_details, JObj(<< <<K_invoice_number, JStr(<<SURR>>)>> >>)>> >>)} \cup
    {JObj(Fields(<< <<K_invoice_details, det>>, <<K_line_items, items>> >>)) :
        det \in {Absent, JNull, JObj(<<>>), JArr(<<>>),
                 JObj(<< <<K_invoice_number, JNull>> >>),
                 JObj(<< <<K_invoice_number, JNum(7)>> >>)}
                \cup {JObj(<< <<K_invoice_number, JStr(n)>> >>) :
                        n \in SeqsUpTo(StrAlphabet, MaxStrLen)},
        items \in {Absent, JArr(<<>>),
                   JArr(<< JObj(<< <<K_tax, JNull>>, <<<<"item_name">>, JStr(<<QUOTE, BSL>>)>> >>),
                           JObj(<<>>) >>)}}

InitSave ==
    /\ platform \in {"posix", "nt"}
    /\ api_key = TRUE
    /\ now \in 0..MaxNow
    /\ dir = <<>>
    /\ attempts = 0
    /\ reply = RaiseReply
    /\ outcome = Idle
    /\ session \in SaveInputs
    /\ view = NoView

\* line 248: filepath = save_extraction_result(extraction_result)
Save ==
    /\ outcome = Idle
    /\ LET s == save_extraction_result(session, now, platform, dir)
       IN  /\ dir' = s.dir
           /\ outcome' = [op |-> "save"] @@ [x \in DOMAIN s \ {"dir"} |-> s[x]]
    /\ UNCHANGED <<platform, api_key, now, attempts, reply, session, view>>

\* lines 282-283: json.load of the file at the returned path
Load ==
    /\ outcome.op = "save"
    /\ outcome.exc = "none"
    /\ ~view.ran
    /\ view' = [ran |-> TRUE, listing |-> <<outcome.filepath[2]>>,
                loaded |-> json_loads(dir[outcome.filepath[2]].content)]
    /\ UNCHANGED <<platform, api_key, now, dir, attempts, reply, outcome, session>>

NextSave == Save \/ Load

SpecSave == InitSave /\ [][NextSave]_vars

-----------------------------------------------------------------------------
(* display_extracted_data alone *)

TaxChoices ==
    {Absent, JNull, JStr(<<"1">>)} \cup {JNum(n) : n \in 0..MaxTax}

DisplayItems ==
    {JObj(Fields(<< <<<<"item_name">>, JStr(<<"A">>)>>, <<K_tax, tax>> >>)) :
        tax \in TaxChoices}

DisplayInputs ==
    {JObj(<<>>), JArr(<<JNum(1)>>)} \cup
    {JObj(Fields(<< <<K_invoice_details, det>>, <<K_line_items, items>> >>)) :
        det \in {Absent, JObj(<< <<K_subtotal, JNull>> >>),
                 JObj(<< <<K_subtotal, JNum(5)>>, <<K_total, JNum(6)>> >>)},
        items \in {Absent, JNull} \cup {JArr(q) : q \in SeqsUpTo(DisplayItems, MaxItems)}}

InitDisplay ==
    /\ platform = "posix"
    /\ api_key = TRUE
    /\ now = 0
    /\ dir = <<>>
    /\ attempts = 0
    /\ reply = RaiseReply
    /\ outcome = Idle
    /\ session \in DisplayInputs
    /\ view = NoView

\* line 253: display_extracted_data(extraction_result)
Display ==
    /\ outcome = Idle
    /\ outcome' = [op |-> "display", disp |-> display_extracted_data(session)]
    /\ UNCHANGED <<platform, api_key, now, dir, attempts, reply, session, view>>

NextDisplay == Display

SpecDisplay == InitDisplay /\ [][NextDisplay]_vars

-----------------------------------------------------------------------------
(* Properties *)

FencedJson(r) ==
    /\ r.kind = "text"
    /\ r.open \in {FENCE, FENCE_JSON}
    /\ r.close = FENCE
    /\ json_loads(r.body).ok

\* C1: a reply that is a JSON text wrapped in a markdown fence, opened with
\* or without the json language tag and closed, is parsed to the very value
\* that parsing the unwrapped JSON text gives.
C1_FenceStrippedParse ==
    (outcome.op = "extract" /\ FencedJson(reply))
        => /\ outcome.err = "none"
           /\ outcome.ret = json_loads(reply.body).v

C1_Witness ==
    /\ outcome.op = "extract"
    /\ FencedJson(reply)
    /\ reply.open = FENCE_JSON
    /\ outcome.err = "none"
    /\ outcome.ret.t = "obj"
    /\ HasKey(outcome.ret.o, K_line_items)

NumberAbsent(data) ==
    /\ data.t = "obj"
    /\ \/ ~HasKey(data.o, K_invoice_details)
       \/ LET det == Lookup(data.o, K_invoice_details)
          IN  /\ det.t = "obj"
              /\ \/ ~HasKey(det.o, K_invoice_number)
                 \/ Lookup(det.o, K_invoice_number) = JNull

\* C3: a save without a file name, of a result whose invoice number is
\* absent (invoice_details missing, invoice_number missing, or invoice_number
\* null), completes, returns a path and names the file
\* invoice_unknown_<timestamp>.json.
C3_PlaceholderWhenAbsent ==
    (outcome.op = "save" /\ NumberAbsent(session))
        => /\ outcome.exc = "none"
           /\ outcome.filename = <<"invoice_">> \o UNKNOWN \o <<"_">> \o strftime(now) \o <<".json">>
           /\ outcome.filepath[2] \in DOMAIN dir

HasNumberString(data) ==
    /\ data.t = "obj"
    /\ HasKey(data.o, K_invoice_details)
    /\ Lookup(data.o, K_invoice_details).t = "obj"
    /\ HasKey(Lookup(data.o, K_invoice_details).o, K_invoice_number)
    /\ Lookup(Lookup(data.o, K_invoice_details).o, K_invoice_number).t = "str"

\* C4: for every invoice number that is a string, the derived file name
\* holds no path separator: the path of the file is the results directory
\* and one more segment.
C4_NoSeparatorInName ==
    (outcome.op = "save" /\ HasNumberString(session))
        => /\ \A i \in 1..Len(outcome.filename) : outcome.filename[i] \notin PathSeps(platform)
           /\ Len(outcome.filepath) = 2

\* C5: loading the file at the path a save returned gives a value equal to
\* the saved one.
C5_SaveLoadRoundTrip ==
    (view.ran /\ outcome.op = "save" /\ outcome.exc = "none")
        => /\ view.loaded.ok
           /\ view.loaded.v = session

C5_Witness ==
    /\ view.ran
    /\ outcome.op = "save"
    /\ outcome.exc = "none"
    /\ view.loaded.ok
    /\ HasNumberString(session)
    /\ BSL \in {outcome.filename[i] : i \in 1..Len(outcome.filename)}
    /\ HasKey(session.o, K_line_items)
    /\ Truthy(Lookup(session.o, K_line_items))

\* the sum of the tax fields, an absent or non-numeric tax counting as zero
RECURSIVE ExpectedTax(_)
ExpectedTax(items) ==
    IF items = <<>> THEN 0
    ELSE (IF Head(items).t = "obj" /\ HasKey(Head(items).o, K_tax)
             /\ Lookup(Head(items).o, K_tax).t = "num"
          THEN Lookup(Head(items).o, K_tax).n ELSE 0)
         + ExpectedTax(Tail(items))

LineItems(data) == DictGet(data.o, K_line_items, JArr(<<>>))

\* C6: whenever the rendering comes to the "Total Tax" metric with a list
\* of line items, computing the total does not fail and the metric shows
\* the sum of the tax fields, an absent, null or non-numeric tax counting
\* as zero.
C6_TotalTaxIsSum ==
    (/\ outcome.op = "display"
     /\ session.t = "obj"
     /\ LineItems(session).t = "arr"
     /\ \A i \in 1..Len(LineItems(session).a) : LineItems(session).a[i].t = "obj"
     /\ outcome.disp.shown
     /\ (outcome.disp.exc = "none" \/ outcome.disp.at >= 187))
        => /\ "total_tax" \in DOMAIN outcome.disp
           /\ outcome.disp.total_tax
                = IntToStr(ExpectedTax(LineItems(session).a)) \o <<".", "0", "0">>

\* file f of the directory after the step holds, whole, the value the
\* click of this step parsed from a reply of the inference service
WrittenByThisClick(f) ==
    /\ attempts' # attempts
    /\ reply'.kind = "text"
    /\ outcome'.err = "none"
    /\ outcome'.ret = json_loads(strip(remove_code_blocks(reply'.text))).v
    /\ json_loads(dir'[f].content) = [ok |-> TRUE, v |-> outcome'.ret]

\* C7: a file enters the results directory, or changes, only as the
\* complete result of a click whose inference call and parse both
\* succeeded; a click that ends in a configuration, service or parse error
\* saves nothing and leaves the directory as it was.
C7_NoPartialResultPersisted ==
    [][/\ \A f \in DOMAIN dir' :
             \/ f \in DOMAIN dir /\ dir'[f] = dir[f]
             \/ WrittenByThisClick(f)
       /\ (attempts' # attempts /\ outcome'.err # "none")
             => (dir' = dir /\ ~outcome'.saved)]_vars

\* C8 as claimed: no step but an external deletion changes or removes a
\* stored file.
C8_StoredNeverChanges ==
    [][\A f \in DOMAIN dir :
          \/ f \in DOMAIN dir' /\ dir'[f].content = dir[f].content
          \/ ExternalDelete(f)]_vars

\* C8, amended: a step changes the content of a stored file only when it is
\* a save that derives that very file name, and then the file holds what
\* that save wrote (last write wins); every other stored file keeps its
\* content, and a file disappears only by external deletion.
C8_ChangesOnlyOnNameCollision ==
    [][\A f \in DOMAIN dir :
          \/ f \in DOMAIN dir' /\ dir'[f].content = dir[f].content
          \/ /\ f \in DOMAIN dir'
             /\ attempts' # attempts
             /\ outcome'.err = "none"
             /\ "filepath" \in DOMAIN outcome'
             /\ outcome'.filepath = <<RESULTS_DIR, f>>
             /\ startswith(json_dumps(outcome'.ret), dir'[f].content)
             /\ outcome'.saved => dir'[f].content = json_dumps(outcome'.ret)
          \/ ExternalDelete(f)]_vars

C8_Witness ==
    /\ outcome.op = "click"
    /\ outcome.saved
    /\ Cardinality(DOMAIN dir) = 2
    /\ \E f \in DOMAIN dir : dir[f].mtime < now

Listed(listing, d) ==
    /\ {listing[i] : i \in 1..Len(listing)} = Glob(d)
    /\ Len(listing) = Cardinality(Glob(d))
    /\ \A i, j \in 1..Len(listing) : i < j => d[listing[i]].mtime >= d[listing[j]].mtime

\* a rerun of the script: a click, or a view (which changes neither the
\* directory nor the clock)
Rerun == attempts' # attempts \/ (dir' = dir /\ now' = now)

\* C9: the listing a rerun shows holds exactly the stored JSON files, each
\* once, newest modification first; on an empty directory it is empty.
C9_ListingNewestFirst ==
    [][(Rerun /\ view'.ran)
          => /\ Listed(view'.listing, dir')
             /\ (dir' = <<>> => view'.listing = <<>>)]_vars

C9_Witness ==
    /\ view.ran
    /\ Len(view.listing) = 2
    /\ Listed(view.listing, dir)
    /\ dir[view.listing[1]].mtime > dir[view.listing[2]].mtime

\* C10: a click whose inference call succeeds and whose reply parses is
\* followed by the save of the parsed value and by its rendering, whatever
\* the value.
C10_ParsedIsSavedAndShown ==
    (outcome.op = "click" /\ reply.kind = "text" /\ outcome.err = "none")
        => /\ outcome.saved
           /\ outcome.filepath[2] \in DOMAIN dir
           /\ json_loads(dir[outcome.filepath[2]].content).v = outcome.ret
           /\ outcome.disp.shown

====
